---- MODULE Spec2Model ----
(***************************************************************************)
(* Model of trainer/preprocess_data.py: the Beam batch pipeline that        *)
(* converts variant rows and sample metadata rows into one labelled         *)
(* example per sample.                                                      *)
(*                                                                         *)
(* The two BigQuery tables are finite sequences of rows (dictionaries);     *)
(* rows are read in any order and by any worker.  The metadata rows are     *)
(* folded by CombineGlobally(TableToDictCombineFn) into one dictionary,     *)
(* which is handed to the 'SamplesToExamples' step as an AsSingleton side   *)
(* input.  The variant rows are keyed, grouped by key and each group is     *)
(* handed to sample_to_example_fn together with the side input.             *)
(*                                                                         *)
(* trainer.util, trainer.feature_encoder, trainer.variant_encoder and       *)
(* trainer.ancestry_metadata_encoder are imported by the file but are not   *)
(* part of the sources at hand; their operators below follow the written    *)
(* specification (sections 4.1 to 4.6).                                     *)
(***************************************************************************)
EXTENDS Integers, Sequences, FiniteSets, TLC

VARIABLES
  bin_size,                    \* preprocess_options.bin_size (None when the flag is absent)
  add_hethom,                  \* preprocess_options.add_hethom
  pc,                          \* "start", "running", "failed" or "done"
  error,                       \* what made the pipeline fail ("" while it has not)
  variant_to_feature_name_fn,  \* the bucketing strategy run() assembled
  metadataTable,               \* rows the metadata query yields
  variantTable,                \* rows the data query yields
  unreadMetadata,              \* indices of metadataTable not yet read
  unreadVariants,              \* indices of variantTable not yet read
  accumulators,                \* per worker: the CombineFn accumulator of its bundle
  samples_metadata,            \* the PCollection CombineGlobally produces (a sequence of elements)
  variant_kvs,                 \* output of 'BucketVariants', in emission order
  grouped,                     \* whether 'GroupBySample' has emitted its groups
  sample_variant_kvs,          \* groups not yet handed to 'SamplesToExamples'
  calls,                       \* arguments of every sample_to_example_fn invocation, in order
  examples                     \* the examples PCollection, in emission order

vars == <<bin_size, add_hethom, pc, error, variant_to_feature_name_fn,
          metadataTable, variantTable, unreadMetadata, unreadVariants,
          accumulators, samples_metadata, variant_kvs, grouped,
          sample_variant_kvs, calls, examples>>

(***************************************************************************)
(* Bounds of the model.                                                     *)
(***************************************************************************)
NumWorkers == 2
MaxVariants == 3
MaxMetadata == 2

Workers == 1..NumWorkers

\* An optional value is None or Some(v).
None == <<>>
Some(v) == <<v>>
NA == "NA"

(***************************************************************************)
(* Column names (the values of the Jinja replacement tables).               *)
(***************************************************************************)
KEY_COLUMN == "key"
CONTIG_COLUMN == "contig"
START_COLUMN == "start"
END_COLUMN == "end"
REF_COLUMN == "ref"
ALT_COLUMN == "alt"
ALT_NUM_COLUMN == "alt_num"
FIRST_ALLELE_COLUMN == "first"
SECOND_ALLELE_COLUMN == "second"
POPULATION_COLUMN == "population"
SUPER_POPULATION_COLUMN == "super_population"
GENDER_COLUMN == "gender"

(***************************************************************************)
(* The rows the row sources may yield.  A row is a dictionary; a row that   *)
(* lacks a column simply has no such field.                                 *)
(***************************************************************************)
VariantRowList ==
  << [key |-> "S1", contig |-> "chr1", start |-> 0, end |-> 1, ref |-> "A",
      alt |-> "T", alt_num |-> 1, first |-> 0, second |-> 1],
     [key |-> "S1", contig |-> "chr1", start |-> 5, end |-> 6, ref |-> "C",
      alt |-> "G", alt_num |-> 1, first |-> 1, second |-> 1],
     [key |-> "S2", contig |-> "chr2", start |-> 3, end |-> 4, ref |-> "A",
      alt |-> "T", alt_num |-> 1, first |-> 1, second |-> 0],
     [contig |-> "chr1", start |-> 3, end |-> 4, ref |-> "A",
      alt |-> "T", alt_num |-> 1, first |-> 0, second |-> 1],
     [key |-> "S2", start |-> 1, end |-> 2, ref |-> "A",
      alt |-> "T", alt_num |-> 1, first |-> 0, second |-> 1] >>

MetadataRowList ==
  << [key |-> "S1", population |-> "GBR", super_population |-> "EUR",
      gender |-> "female"],
     [key |-> "S1", population |-> "FIN", super_population |-> "EUR",
      gender |-> "male"],
     [key |-> "S3", population |-> "YRI", super_population |-> "AFR",
      gender |-> "male"],
     [population |-> "GBR", super_population |-> "EUR", gender |-> "male"] >>

BinSizes == {-2, 0, 2}

HasColumn(row, col) == col \in DOMAIN row

\* Tables of at most n rows drawn from list, one representative per multiset.
Tables(list, n) ==
  UNION { { [i \in 1..len |-> list[ix[i]]] :
              ix \in { f \in [1..len -> 1..Len(list)] :
                         \A i \in 1..len : \A j \in 1..len : i <= j => f[i] <= f[j] } } :
          len \in 0..n }

\* All orders in which the elements of the finite set S can be listed.
Orders(S) ==
  { s \in [1..Cardinality(S) -> S] :
      \A i \in DOMAIN s : \A j \in DOMAIN s : s[i] = s[j] => i = j }

EmptyDict == [k \in {} |-> NA]


(***************************************************************************)
(* trainer.util.TableToDictCombineFn (specification 4.1): a dictionary      *)
(* keyed by the key column; a row without the key column is dropped; on a   *)
(* key met twice the row seen last wins.                                    *)
(***************************************************************************)
create_accumulator == EmptyDict

add_input(accumulator, element, key_column) ==
  IF HasColumn(element, key_column)
    THEN (element[key_column] :> element) @@ accumulator
    ELSE accumulator

RECURSIVE merge_accumulators(_)
merge_accumulators(accs) ==
  IF accs = <<>> THEN EmptyDict
  ELSE accs[Len(accs)] @@ merge_accumulators(SubSeq(accs, 1, Len(accs) - 1))

extract_output(accumulator) == accumulator

(***************************************************************************)
(* trainer.variant_encoder (specification 4.2 to 4.4).  A result is either  *)
(* [ok |-> TRUE, value |-> v] or [ok |-> FALSE, error |-> e].               *)
(***************************************************************************)
Ok(v) == [ok |-> TRUE, value |-> v]
Raise(e) == [ok |-> FALSE, error |-> e]

\* Python's floor division for a divisor other than 0.
FloorDiv(a, b) == IF b > 0 THEN a \div b ELSE (0 - a) \div (0 - b)

variant_to_contig_feature_name(variant) ==
  IF HasColumn(variant, CONTIG_COLUMN)
    THEN Ok(<<variant[CONTIG_COLUMN]>>)
    ELSE Raise("KeyError")

variant_to_binned_feature_name(variant, size) ==
  IF ~HasColumn(variant, CONTIG_COLUMN) \/ ~HasColumn(variant, START_COLUMN)
    THEN Raise("KeyError")
  ELSE IF size = 0
    THEN Raise("ZeroDivisionError")
  ELSE Ok(<<variant[CONTIG_COLUMN], FloorDiv(variant[START_COLUMN], size)>>)

\* The closure build_variant_to_binned_feature_name(bin_size=...) returns.
build_variant_to_binned_feature_name(size) == [kind |-> "binned", bin_size |-> size]

contig_feature_name_fn == [kind |-> "contig"]

FeatureName(fn, variant) ==
  IF fn.kind = "binned"
    THEN variant_to_binned_feature_name(variant, fn.bin_size)
    ELSE variant_to_contig_feature_name(variant)

\* build_variant_to_words(add_hethom): the token of one variant.
variant_to_words(variant, hethom) ==
  LET hits == (IF variant[FIRST_ALLELE_COLUMN] = variant[ALT_NUM_COLUMN] THEN 1 ELSE 0)
              + (IF variant[SECOND_ALLELE_COLUMN] = variant[ALT_NUM_COLUMN] THEN 1 ELSE 0)
      word == <<variant[REF_COLUMN], variant[ALT_COLUMN], variant[ALT_NUM_COLUMN]>>
  IN IF hethom
       THEN [word |-> word, hethom |-> IF hits = 2 THEN "hom" ELSE "het"]
       ELSE [word |-> word]

RECURSIVE AppendWords(_, _, _)
AppendWords(fn, hethom, vals) ==
  IF vals = <<>> THEN EmptyDict
  ELSE LET rest == AppendWords(fn, hethom, SubSeq(vals, 1, Len(vals) - 1))
           variant == vals[Len(vals)]
           name == FeatureName(fn, variant).value
           sofar == IF name \in DOMAIN rest THEN rest[name] ELSE <<>>
       IN (name :> Append(sofar, variant_to_words(variant, hethom))) @@ rest

\* build_variants_to_features(variant_to_feature_name_fn, variant_to_words_fn)
variants_to_features(fn, hethom, vals) ==
  IF \E i \in DOMAIN vals : ~FeatureName(fn, vals[i]).ok
    THEN Raise(FeatureName(fn,
           vals[CHOOSE i \in DOMAIN vals : ~FeatureName(fn, vals[i]).ok]).error)
    ELSE Ok(AppendWords(fn, hethom, vals))

(***************************************************************************)
(* trainer.ancestry_metadata_encoder and trainer.feature_encoder            *)
(* (specification 4.5, 4.6).                                                *)
(***************************************************************************)
NARecord ==
  [population |-> NA, super_population |-> NA, gender |-> NA]

metadata_to_ancestry_features(record) ==
  [population |-> IF HasColumn(record, POPULATION_COLUMN)
                    THEN record[POPULATION_COLUMN] ELSE NA,
   super_population |-> IF HasColumn(record, SUPER_POPULATION_COLUMN)
                    THEN record[SUPER_POPULATION_COLUMN] ELSE NA,
   gender |-> IF HasColumn(record, GENDER_COLUMN)
                    THEN record[GENDER_COLUMN] ELSE NA]

\* build_sample_to_example(metadata_to_features_fn, variants_to_features_fn)
sample_to_example(fn, hethom, key, vals, metadata) ==
  LET features == variants_to_features(fn, hethom, vals)
      ancestry == metadata_to_ancestry_features(
                    IF key \in DOMAIN metadata THEN metadata[key] ELSE NARecord)
  IN IF features.ok
       THEN Ok([key |-> key, variants |-> features.value,
                population |-> ancestry.population,
                super_population |-> ancestry.super_population,
                gender |-> ancestry.gender])
       ELSE features


(***************************************************************************)
(* The transforms of variants_to_examples and run.                          *)
(***************************************************************************)

\* Variants of the transforms that a slip in the pipeline code would give;
\* each property below is checked to tell the transform from its variant.
BucketVariantsFn_ByContig(row) ==
  IF HasColumn(row, CONTIG_COLUMN)
    THEN Ok(<< <<row[CONTIG_COLUMN], row>> >>)
    ELSE Raise("KeyError")

BucketVariantsFn_SkipKeyless(row) ==
  IF HasColumn(row, KEY_COLUMN)
    THEN Ok(<< <<row[KEY_COLUMN], row>> >>)
    ELSE Ok(<<>>)

\* 'BucketVariants': lambda row: (row[encoder.KEY_COLUMN], row).  A Map emits
\* one element per input; the result is the sequence of elements emitted.
BucketVariantsFn(row) ==
  IF HasColumn(row, KEY_COLUMN)
    THEN Ok(<< <<row[KEY_COLUMN], row>> >>)
    ELSE Raise("KeyError")

\* The values emitted under key k, in emission order.
RECURSIVE ValuesOf(_, _)
ValuesOf(kvs, k) ==
  IF kvs = <<>> THEN <<>>
  ELSE LET rest == ValuesOf(SubSeq(kvs, 1, Len(kvs) - 1), k)
           kv == kvs[Len(kvs)]
       IN IF kv[1] = k THEN Append(rest, kv[2]) ELSE rest

\* Grouping that only joins neighbours: one group per run of equal keys.
GroupByKey_Consecutive(kvs) ==
  { [key |-> kvs[i][1],
     vals |-> LET last == CHOOSE j \in i..Len(kvs) :
                            /\ \A n \in i..j : kvs[n][1] = kvs[i][1]
                            /\ j = Len(kvs) \/ kvs[j + 1][1] # kvs[i][1]
              IN [n \in 1..(last - i + 1) |-> kvs[i + n - 1][2]]] :
    i \in { n \in DOMAIN kvs : n = 1 \/ kvs[n - 1][1] # kvs[n][1] } }

\* The values without their repetitions, in order of first occurrence.
RECURSIVE Distinct(_)
Distinct(seq) ==
  IF seq = <<>> THEN <<>>
  ELSE LET rest == Distinct(SubSeq(seq, 1, Len(seq) - 1))
       IN IF \E i \in DOMAIN rest : rest[i] = seq[Len(seq)]
            THEN rest ELSE Append(rest, seq[Len(seq)])

\* Grouping that collects the values of a key as a set.
GroupByKey_Distinct(kvs) ==
  { [key |-> k, vals |-> Distinct(ValuesOf(kvs, k))] :
    k \in { kvs[i][1] : i \in DOMAIN kvs } }

\* 'GroupBySample': beam.GroupByKey(), one (key, values) element per key.
GroupByKey(kvs) ==
  { [key |-> k, vals |-> ValuesOf(kvs, k)] : k \in { kvs[i][1] : i \in DOMAIN kvs } }

\* A combine that forgets the merge: the first bundle's accumulator alone.
CombineGlobally_FirstOnly(accs) == << extract_output(accs[1]) >>

\* 'TableToDictionary': CombineGlobally emits one element, the output
\* extracted from the merge of the bundles' accumulators (accs lists them
\* in the order the runner hands them to merge_accumulators).
CombineGlobally(accs) == << extract_output(merge_accumulators(accs)) >>

\* The key column run() gives TableToDictCombineFn.
TableToDictKeyColumn == KEY_COLUMN

\* A side input read without waiting for the combine: whatever the bundles
\* have accumulated so far.
AsSingleton_NoBarrier ==
  [ready |-> TRUE,
   value |-> merge_accumulators([w \in 1..NumWorkers |-> accumulators[w]])]

\* A side input that hands out one bundle's accumulator.
AsSingleton_OneBundle ==
  [ready |-> samples_metadata # <<>>, value |-> accumulators[1]]

\* beam.pvalue.AsSingleton(samples_metadata): ready once the side input's
\* PCollection is complete, and then its one element.
AsSingleton ==
  [ready |-> samples_metadata # <<>>,
   value |-> IF samples_metadata # <<>> THEN samples_metadata[1] ELSE EmptyDict]

\* A join that looks the sample up itself: samples_metadata[key].
SamplesToExamplesFn_StrictLookup(key, vals, metadata) ==
  IF key \in DOMAIN metadata
    THEN sample_to_example(variant_to_feature_name_fn, add_hethom, key, vals, metadata)
    ELSE Raise("KeyError")

\* 'SamplesToExamples': lambda (key, vals), samples_metadata:
\*   sample_to_example_fn(key, vals, samples_metadata)
SamplesToExamplesFn(key, vals, metadata) ==
  sample_to_example(variant_to_feature_name_fn, add_hethom, key, vals, metadata)

\* A run() that never installs the binned strategy.
FeatureNameStrategy_AlwaysContig(size) == contig_feature_name_fn

\* run(): the bucketing strategy chosen from --bin_size.
FeatureNameStrategy(size) ==
  IF size # None
    THEN build_variant_to_binned_feature_name(size[1])
    ELSE contig_feature_name_fn

(***************************************************************************)
(* Initial state: the command line is parsed (argparse type=int accepts     *)
(* any integer for --bin_size), the tables hold their rows, nothing has     *)
(* run.                                                                     *)
(***************************************************************************)
InitWith(sizes, hethoms, metadataTables, variantTables) ==
  /\ bin_size \in sizes
  /\ add_hethom \in hethoms
  /\ pc = "start"
  /\ error = ""
  /\ variant_to_feature_name_fn = [kind |-> "unset"]
  /\ metadataTable \in metadataTables
  /\ variantTable \in variantTables
  /\ unreadMetadata = DOMAIN metadataTable
  /\ unreadVariants = DOMAIN variantTable
  /\ accumulators = [w \in Workers |-> create_accumulator]
  /\ samples_metadata = <<>>
  /\ variant_kvs = <<>>
  /\ grouped = FALSE
  /\ sample_variant_kvs = {}
  /\ calls = <<>>
  /\ examples = <<>>

Init ==
  InitWith({Some(n) : n \in BinSizes} \cup {None}, BOOLEAN,
           Tables(MetadataRowList, MaxMetadata),
           Tables(VariantRowList, MaxVariants))

\* run(), up to the construction of the pipeline.
Run ==
  /\ pc = "start"
  /\ variant_to_feature_name_fn' = FeatureNameStrategy(bin_size)
  /\ pc' = "running"
  /\ UNCHANGED <<bin_size, add_hethom, error, metadataTable, variantTable,
                 unreadMetadata, unreadVariants, accumulators, samples_metadata,
                 variant_kvs, grouped, sample_variant_kvs, calls, examples>>

\* 'ReadSampleMetadata' feeding the combiner: worker w reads row i and adds
\* it to the accumulator of its bundle.
ReadSampleMetadata(w, i) ==
  /\ pc = "running"
  /\ i \in unreadMetadata
  /\ unreadMetadata' = unreadMetadata \ {i}
  /\ accumulators' = [accumulators EXCEPT
                        ![w] = add_input(@, metadataTable[i], TableToDictKeyColumn)]
  /\ UNCHANGED <<bin_size, add_hethom, pc, error, variant_to_feature_name_fn,
                 metadataTable, variantTable, unreadVariants, samples_metadata,
                 variant_kvs, grouped, sample_variant_kvs, calls, examples>>

\* 'TableToDictionary': all rows are read; the accumulators are merged in
\* some order and the dictionary is emitted.
TableToDictionary ==
  /\ pc = "running"
  /\ unreadMetadata = {}
  /\ samples_metadata = <<>>
  /\ \E order \in Orders(Workers) :
       samples_metadata' =
         CombineGlobally([n \in 1..NumWorkers |-> accumulators[order[n]]])
  /\ UNCHANGED <<bin_size, add_hethom, pc, error, variant_to_feature_name_fn,
                 metadataTable, variantTable, unreadMetadata, unreadVariants,
                 accumulators, variant_kvs, grouped, sample_variant_kvs, calls,
                 examples>>

\* 'ReadVariants' and 'BucketVariants' on row i.
BucketVariants(i) ==
  /\ pc = "running"
  /\ i \in unreadVariants
  /\ unreadVariants' = unreadVariants \ {i}
  /\ LET r == BucketVariantsFn(variantTable[i])
     IN IF r.ok
          THEN /\ variant_kvs' = variant_kvs \o r.value
               /\ UNCHANGED <<pc, error>>
          ELSE /\ pc' = "failed"
               /\ error' = r.error
               /\ UNCHANGED variant_kvs
  /\ UNCHANGED <<bin_size, add_hethom, variant_to_feature_name_fn,
                 metadataTable, variantTable, unreadMetadata, accumulators,
                 samples_metadata, grouped, sample_variant_kvs, calls, examples>>

\* 'GroupBySample': every variant row has been keyed.
GroupBySample ==
  /\ pc = "running"
  /\ unreadVariants = {}
  /\ ~grouped
  /\ grouped' = TRUE
  /\ sample_variant_kvs' = GroupByKey(variant_kvs)
  /\ UNCHANGED <<bin_size, add_hethom, pc, error, variant_to_feature_name_fn,
                 metadataTable, variantTable, unreadMetadata, unreadVariants,
                 accumulators, samples_metadata, variant_kvs, calls, examples>>

\* 'SamplesToExamples' on one group, with the side input.
SamplesToExamples(g) ==
  /\ pc = "running"
  /\ g \in sample_variant_kvs
  /\ AsSingleton.ready
  /\ sample_variant_kvs' = sample_variant_kvs \ {g}
  /\ calls' = Append(calls, [key |-> g.key, vals |-> g.vals,
                             samples_metadata |-> AsSingleton.value])
  /\ LET r == SamplesToExamplesFn(g.key, g.vals, AsSingleton.value)
     IN IF r.ok
          THEN /\ examples' = Append(examples, r.value)
               /\ UNCHANGED <<pc, error>>
          ELSE /\ pc' = "failed"
               /\ error' = r.error
               /\ UNCHANGED examples
  /\ UNCHANGED <<bin_size, add_hethom, variant_to_feature_name_fn,
                 metadataTable, variantTable, unreadMetadata, unreadVariants,
                 accumulators, samples_metadata, variant_kvs, grouped>>

\* 'EncodeExamples' and 'WriteExamples': every transform has finished.
WriteExamples ==
  /\ pc = "running"
  /\ grouped
  /\ sample_variant_kvs = {}
  /\ samples_metadata # <<>>
  /\ pc' = "done"
  /\ UNCHANGED <<bin_size, add_hethom, error, variant_to_feature_name_fn,
                 metadataTable, variantTable, unreadMetadata, unreadVariants,
                 accumulators, samples_metadata, variant_kvs, grouped,
                 sample_variant_kvs, calls, examples>>

Next ==
  \/ Run
  \/ \E w \in Workers : \E i \in DOMAIN metadataTable : ReadSampleMetadata(w, i)
  \/ TableToDictionary
  \/ \E i \in DOMAIN variantTable : BucketVariants(i)
  \/ GroupBySample
  \/ \E g \in sample_variant_kvs : SamplesToExamples(g)
  \/ WriteExamples

Spec == Init /\ [][Next]_vars

(***************************************************************************)
(* The same pipeline over narrower inputs, so that each family of           *)
(* properties is checked where its cases are dense.                         *)
(***************************************************************************)

\* Every metadata row (conflicting, keyless, metadata-only); well-formed
\* variant rows; default options.
InitMetadata ==
  InitWith({None}, {TRUE},
           Tables(MetadataRowList, MaxMetadata),
           Tables(SubSeq(VariantRowList, 1, 3), MaxVariants))

SpecMetadata == InitMetadata /\ [][Next]_vars

\* Every variant row (repeated, keyless, without contig); metadata without
\* conflicts; contig and binned strategy.
InitVariants ==
  InitWith({None, Some(2)}, {TRUE},
           Tables(<<MetadataRowList[1], MetadataRowList[3]>>, MaxMetadata),
           Tables(VariantRowList, MaxVariants))

SpecVariants == InitVariants /\ [][Next]_vars

\* Every option value; every variant row; one metadata row.
InitConfig ==
  InitWith({Some(n) : n \in BinSizes} \cup {None}, BOOLEAN,
           Tables(<<MetadataRowList[1]>>, MaxMetadata),
           Tables(VariantRowList, MaxVariants))

SpecConfig == InitConfig /\ [][Next]_vars


(***************************************************************************)
(* Vocabulary of the properties: what the tables hold, computed from the    *)
(* tables alone.                                                            *)
(***************************************************************************)
Count(seq, x) == Cardinality({ i \in DOMAIN seq : seq[i] = x })

Range(seq) == { seq[i] : i \in DOMAIN seq }

BagOf(seq) == [x \in Range(seq) |-> Count(seq, x)]

RECURSIVE SumLen(_, _)
SumLen(f, S) ==
  IF S = {} THEN 0
  ELSE LET x == CHOOSE y \in S : TRUE IN Len(f[x]) + SumLen(f, S \ {x})

\* Number of tokens over all slots of one example.
TokenCount(example) == SumLen(example.variants, DOMAIN example.variants)

RECURSIVE TotalTokens(_)
TotalTokens(exs) ==
  IF exs = <<>> THEN 0
  ELSE TokenCount(exs[Len(exs)]) + TotalTokens(SubSeq(exs, 1, Len(exs) - 1))

HasSampleKey(row) == "key" \in DOMAIN row

\* A variant row the feature builder cannot place.
Unplaceable(row) == "contig" \notin DOMAIN row \/ "start" \notin DOMAIN row

VariantSampleKeys ==
  { variantTable[i].key : i \in { j \in DOMAIN variantTable : HasSampleKey(variantTable[j]) } }

MetadataSampleKeys ==
  { metadataTable[i].key : i \in { j \in DOMAIN metadataTable : HasSampleKey(metadataTable[j]) } }

\* Rows of the variant table with sample key k.
RowsOfSample(k) ==
  { i \in DOMAIN variantTable : HasSampleKey(variantTable[i]) /\ variantTable[i].key = k }

CountInTable(k, row) ==
  Cardinality({ i \in RowsOfSample(k) : variantTable[i] = row })

RequestedBinSize == IF bin_size = None THEN 1 ELSE bin_size[1]

NonPositiveBinSize == bin_size # None /\ RequestedBinSize <= 0

MalformedVariantInput ==
  \E i \in DOMAIN variantTable :
    ~HasSampleKey(variantTable[i]) \/ Unplaceable(variantTable[i])

CombineFinished == samples_metadata # <<>> /\ unreadMetadata = {}

BothBundlesFed ==
  /\ accumulators[1] # EmptyDict
  /\ accumulators[2] # EmptyDict
  /\ DOMAIN accumulators[1] # DOMAIN accumulators[2]


(***************************************************************************)
(* C1.  The assembler is invoked exactly once for each distinct sample key  *)
(* of the variant stream and for no other key: no key is handed over        *)
(* twice, every key handed over is a sample key of a variant row, and when  *)
(* the pipeline has finished the keys of the output records are exactly     *)
(* the distinct variant sample keys, one record each (a key that occurs     *)
(* only in the metadata has no record).                                     *)
(***************************************************************************)
C1_OncePerVariantSampleKey ==
  /\ \A i \in DOMAIN calls : \A j \in DOMAIN calls :
       calls[i].key = calls[j].key => i = j
  /\ \A i \in DOMAIN calls : calls[i].key \in VariantSampleKeys
  /\ pc = "done" =>
       /\ { calls[i].key : i \in DOMAIN calls } = VariantSampleKeys
       /\ { examples[i].key : i \in DOMAIN examples } = VariantSampleKeys
       /\ Len(examples) = Cardinality(VariantSampleKeys)
       /\ Len(calls) = Cardinality(VariantSampleKeys)

\* A finished run over three variant rows of two samples, with a sample
\* that only the metadata knows.
C1_Witness ==
  /\ pc = "done"
  /\ Len(variantTable) = 3
  /\ Cardinality(VariantSampleKeys) = 2
  /\ Len(examples) = 2
  /\ MetadataSampleKeys \ VariantSampleKeys # {}

(***************************************************************************)
(* C2.  No invocation of sample_to_example_fn happens before the global     *)
(* combine over all metadata rows has finished: every step that adds an     *)
(* invocation starts in a state where every metadata row has been read and  *)
(* the combined dictionary has been emitted.                                *)
(***************************************************************************)
C2_JoinAfterCombine ==
  [][calls' # calls => CombineFinished]_vars

\* Groups are waiting for the side input while metadata is still unread.
C2_GroupsWaitAtBarrier ==
  /\ grouped
  /\ sample_variant_kvs # {}
  /\ unreadMetadata # {}
  /\ samples_metadata = <<>>

\* An invocation has happened, the metadata having been read by two bundles.
C2_Witness ==
  /\ Len(calls) >= 1
  /\ Len(metadataTable) = 2
  /\ BothBundlesFed

(***************************************************************************)
(* C3.  A sample key of the variant stream that has no entry in the         *)
(* metadata dictionary still gets exactly one record, with population,      *)
(* super-population and gender all NA (also when the metadata table is      *)
(* empty); the lookup miss is never an error: the pipeline fails only on a  *)
(* malformed variant row or a bin size of 0.                                *)
(***************************************************************************)
C3_MissingMetadataGivesNA ==
  /\ \A i \in DOMAIN examples :
       examples[i].key \notin MetadataSampleKeys =>
         /\ examples[i].population = NA
         /\ examples[i].super_population = NA
         /\ examples[i].gender = NA
  /\ pc = "done" =>
       \A k \in VariantSampleKeys \ MetadataSampleKeys :
         Cardinality({ i \in DOMAIN examples : examples[i].key = k }) = 1
  /\ pc = "failed" => MalformedVariantInput \/ bin_size = Some(0)

\* A finished run with a record for a sample the (non-empty) metadata lacks.
C3_Witness ==
  /\ pc = "done"
  /\ metadataTable # <<>>
  /\ \E i \in DOMAIN examples :
       /\ examples[i].key \notin MetadataSampleKeys
       /\ examples[i].population = NA
       /\ examples[i].gender = NA


(***************************************************************************)
(* Reference result: the output of the run that reads both tables in table  *)
(* order on a single worker.  A record is compared with the tokens of each  *)
(* slot taken as a multiset.                                                *)
(***************************************************************************)
CanonExample(e) ==
  [key |-> e.key, population |-> e.population,
   super_population |-> e.super_population, gender |-> e.gender,
   variants |-> [slot \in DOMAIN e.variants |-> BagOf(e.variants[slot])]]

RECURSIVE SequentialDict(_)
SequentialDict(rows) ==
  IF rows = <<>> THEN create_accumulator
  ELSE add_input(SequentialDict(SubSeq(rows, 1, Len(rows) - 1)),
                 rows[Len(rows)], KEY_COLUMN)

\* The variant rows of sample k in table order.
RECURSIVE SequentialGroup(_, _)
SequentialGroup(rows, k) ==
  IF rows = <<>> THEN <<>>
  ELSE LET rest == SequentialGroup(SubSeq(rows, 1, Len(rows) - 1), k)
           row == rows[Len(rows)]
       IN IF HasSampleKey(row) /\ row.key = k THEN Append(rest, row) ELSE rest

SequentialExample(k) ==
  sample_to_example(variant_to_feature_name_fn, add_hethom, k,
                    SequentialGroup(variantTable, k), SequentialDict(metadataTable))

SameAsSequentialRun ==
  /\ \A k \in VariantSampleKeys : SequentialExample(k).ok
  /\ { CanonExample(examples[i]) : i \in DOMAIN examples }
       = { CanonExample(SequentialExample(k).value) : k \in VariantSampleKeys }

\* Two metadata rows with the same sample key and different attributes.
ConflictingMetadata ==
  \E i \in DOMAIN metadataTable : \E j \in DOMAIN metadataTable :
    /\ HasSampleKey(metadataTable[i]) /\ HasSampleKey(metadataTable[j])
    /\ metadataTable[i].key = metadataTable[j].key
    /\ metadataTable[i] # metadataTable[j]

KeyComplete(key, vals) ==
  /\ \A n \in DOMAIN vals : HasSampleKey(vals[n]) /\ vals[n].key = key
  /\ Len(vals) = Cardinality(RowsOfSample(key))
  /\ \A i \in RowsOfSample(key) :
       Count(vals, variantTable[i]) = CountInTable(key, variantTable[i])

(***************************************************************************)
(* C5.  Grouping is key-complete: the group handed to the feature builder   *)
(* for a sample key holds every variant row of the table with that key,     *)
(* as often as the table holds it, and no row of another key; the number    *)
(* of tokens over all slots of a sample's record is the number of variant   *)
(* rows of that sample.                                                     *)
(***************************************************************************)
C5_GroupsAreKeyComplete ==
  /\ \A g \in sample_variant_kvs : KeyComplete(g.key, g.vals)
  /\ \A i \in DOMAIN calls : KeyComplete(calls[i].key, calls[i].vals)
  /\ \A i \in DOMAIN examples :
       TokenCount(examples[i]) = Cardinality(RowsOfSample(examples[i].key))

\* Two samples, one of them with the same variant row twice.
C5_Witness ==
  /\ pc = "done"
  /\ Len(examples) = 2
  /\ \E i \in DOMAIN examples :
       /\ TokenCount(examples[i]) = 2
       /\ Len(calls[i].vals) = 2
       /\ calls[i].vals[1] = calls[i].vals[2]


(***************************************************************************)
(* C6.  A non-positive bin size is rejected at startup: with --bin_size 0   *)
(* or a negative --bin_size, run() never gets as far as constructing the    *)
(* pipeline, and no metadata or variant row is ever read.                   *)
(***************************************************************************)
C6_NonPositiveBinSizeRejected ==
  NonPositiveBinSize =>
    /\ pc \in {"start", "failed"}
    /\ variant_to_feature_name_fn = [kind |-> "unset"]
    /\ unreadMetadata = DOMAIN metadataTable
    /\ unreadVariants = DOMAIN variantTable

(***************************************************************************)
(* C7.  A variant row without the sample-key field is never silently        *)
(* dropped: once such a row has been read the pipeline has failed, and a    *)
(* run that finishes had no malformed variant row and accounts for every    *)
(* variant row of the table with one token.                                 *)
(***************************************************************************)
C7_MalformedVariantAborts ==
  /\ (\E i \in DOMAIN variantTable \ unreadVariants : ~HasSampleKey(variantTable[i]))
       => pc = "failed"
  /\ pc = "done" =>
       /\ ~MalformedVariantInput
       /\ TotalTokens(examples) = Len(variantTable)

\* The run has keyed some rows and then failed on a row without sample key.
C7_Witness ==
  /\ pc = "failed"
  /\ error = "KeyError"
  /\ variant_kvs # <<>>
  /\ \E i \in DOMAIN variantTable \ unreadVariants : ~HasSampleKey(variantTable[i])

(***************************************************************************)
(* C8.  The metadata reduction yields exactly one dictionary per run (never *)
(* more than one, and one when the run finishes), and a sample key is in    *)
(* that dictionary if and only if the metadata table holds at least one     *)
(* row with that key, however the rows were spread over the bundles and in  *)
(* whatever order the accumulators were merged.                             *)
(***************************************************************************)
C8_OneDictionaryWithTheTableKeys ==
  /\ Len(samples_metadata) <= 1
  /\ pc = "done" => Len(samples_metadata) = 1
  /\ \A n \in DOMAIN samples_metadata :
       DOMAIN samples_metadata[n] = MetadataSampleKeys

\* The dictionary has been emitted from two bundles that saw different keys.
C8_Witness ==
  /\ Len(samples_metadata) = 1
  /\ BothBundlesFed
  /\ Cardinality(MetadataSampleKeys) = 2

\* The floor of start / size, from its defining inequalities.
BinIndex(start, size) ==
  CHOOSE k \in -8..8 :
    IF size > 0
      THEN k * size <= start /\ start < (k + 1) * size
      ELSE k * size >= start /\ start > (k + 1) * size

ExpectedSlot(row) ==
  IF bin_size = None
    THEN <<row.contig>>
    ELSE <<row.contig, BinIndex(row.start, RequestedBinSize)>>

\* The tokens of the rows of vals that belong in slot, as a multiset.
ExpectedTokens(vals, slot) ==
  LET mine == SelectSeq(vals, LAMBDA row : ExpectedSlot(row) = slot)
  IN BagOf([n \in DOMAIN mine |-> variant_to_words(mine[n], add_hethom)])

(***************************************************************************)
(* C9.  The bucketing strategy follows the configuration and stays fixed:   *)
(* with bin_size present every variant's token is in the slot named by its  *)
(* contig and the floor-division bin index of its start (for a positive     *)
(* bin size the bin k with k*bin_size <= start < (k+1)*bin_size, so         *)
(* position 0 is in bin 0); with bin_size absent it is in the slot named    *)
(* by its contig alone.                                                     *)
(***************************************************************************)
C9_SlotFollowsConfiguredStrategy ==
  /\ pc # "start" =>
       variant_to_feature_name_fn =
         IF bin_size = None THEN [kind |-> "contig"]
         ELSE [kind |-> "binned", bin_size |-> RequestedBinSize]
  /\ \A i \in DOMAIN examples :
       /\ DOMAIN examples[i].variants
            = { ExpectedSlot(calls[i].vals[n]) : n \in DOMAIN calls[i].vals }
       /\ \A slot \in DOMAIN examples[i].variants :
            BagOf(examples[i].variants[slot]) = ExpectedTokens(calls[i].vals, slot)
       /\ (bin_size = None) =>
            \A slot \in DOMAIN examples[i].variants : Len(slot) = 1
       /\ (bin_size # None /\ RequestedBinSize > 0) =>
            \A n \in DOMAIN calls[i].vals :
              \E slot \in DOMAIN examples[i].variants :
                /\ slot[1] = calls[i].vals[n].contig
                /\ slot[2] * RequestedBinSize <= calls[i].vals[n].start
                /\ calls[i].vals[n].start < (slot[2] + 1) * RequestedBinSize
                /\ (calls[i].vals[n].start = 0 => slot[2] = 0)

\* A finished binned run: one sample's variants at 0 and 5 land in bins 0
\* and 2 of chr1.
C9_Witness ==
  /\ pc = "done"
  /\ bin_size = Some(2)
  /\ \E i \in DOMAIN examples :
       DOMAIN examples[i].variants = { <<"chr1", 0>>, <<"chr1", 2>> }

\* A finished unbinned run: every slot is a contig.
C9_WitnessContig ==
  /\ pc = "done"
  /\ bin_size = None
  /\ \E i \in DOMAIN examples : DOMAIN examples[i].variants = { <<"chr1">> }

(***************************************************************************)
(* C10.  The metadata dictionary is built once and only read afterwards:    *)
(* every invocation of the assembler received the same dictionary, it is    *)
(* the complete one (its keys are the keys of the metadata table, each      *)
(* mapped to a row of the table with that key), and it is still the         *)
(* element of samples_metadata after any number of groups was processed.    *)
(***************************************************************************)
C10_SameCompleteDictionaryForEveryGroup ==
  \A i \in DOMAIN calls :
    /\ samples_metadata = << calls[i].samples_metadata >>
    /\ \A j \in DOMAIN calls : calls[j].samples_metadata = calls[i].samples_metadata
    /\ DOMAIN calls[i].samples_metadata = MetadataSampleKeys
    /\ \A k \in MetadataSampleKeys :
         \E n \in DOMAIN metadataTable :
           /\ HasSampleKey(metadataTable[n])
           /\ metadataTable[n].key = k
           /\ calls[i].samples_metadata[k] = metadataTable[n]

\* Two groups were processed against a dictionary merged from two bundles.
C10_Witness ==
  /\ Len(calls) = 2
  /\ BothBundlesFed
  /\ samples_metadata # <<>>
  /\ calls[1].samples_metadata = calls[2].samples_metadata

====
